---- MODULE Spec2Model ----
(***************************************************************************)
(* Avatar phase controller (AvatarVideoStream component), its inactivity   *)
(* timer and the live-session lifecycle, as one state machine.             *)
(*                                                                         *)
(* One action is one run-to-completion step of the browser event loop: an  *)
(* event handler, a timer callback, or the continuation of an async        *)
(* function after one await.  React state set in a step is committed, and  *)
(* the effects depending on it are run, as part of that step; phaseRef,    *)
(* avatarRef and window.avatar mirror the states phase and avatar.         *)
(*                                                                         *)
(* Closures: the storage listener of the mount effect keeps the            *)
(* handleChatRequest / handleChatInput of the first render, whose phase is *)
(* 'idle'; the 1 s speak timeout keeps the pendingResponse and avatar of   *)
(* the render that entered phase 'stream'.                                 *)
(*                                                                         *)
(* Three smaller machines share the module: the chat interface window's    *)
(* loading state (driven by the avatarSpeakingStatus writes of the phase   *)
(* controller), the chroma-key compositor (SpecChroma) and the chat        *)
(* history shown by several windows (SpecHistory).                         *)
(***************************************************************************)
EXTENDS Integers, Sequences, FiniteSets, TLC

\* ---- bounds of the model ----
MaxRequests == 2
MaxSessions == 2
MaxStorageEvents == 1
MaxFailures == 1
MaxTimers == 3
MaxRepeats == 1

\* ---- program constants ----
INACTIVITY_SECONDS == 20
INITIAL_COUNTDOWN == 30

\* time is observed in steps of half the inactivity period
TickSeconds == INACTIVITY_SECONDS \div 2

Requests == 1..MaxRequests
Sessions == 1..MaxSessions
TimerIds == 1..MaxTimers
Phases == {"idle", "to_live", "stream", "to_idle"}

\* the records that can stand for a timeout, a speakPendingResponse call and a
\* cleanupAvatarSession call
TimeoutRecs == [id : TimerIds, rem : {0, TickSeconds, INACTIVITY_SECONDS}]
SpeakTaskRecs == [pr : Requests, pc : {"delay", "speak"}, s : {0} \cup Sessions]
CleanupTaskRecs == [s : Sessions, next : {"to_idle", "close"}]

VARIABLES
  mounted,                 \* the component is mounted (onClose not yet called)
  phase,                   \* useState phase (and phaseRef)
  pendingTransitionToLive, \* useState
  pendingResponse,         \* useState: 0 (null) or the request whose response is held
  avatar,                  \* useState avatar / avatarRef / window.avatar: 0 or a session
  isAvatarStreamReady,     \* useState
  avatarStreamRef,         \* 0 or the session whose MediaStream is stored
  videoSrc,                \* videoRef.current.srcObject: 0 or a session
  initializationRef,
  isReadyRef,
  sessionInitPromiseRef,   \* 0 or the init chain whose promise is stored
  openaiAssistantRef,      \* TRUE when an assistant is stored
  cleanupRef,              \* 0 or the session whose listeners the stored callback removes
  pendingChatRequestsRef,  \* sequence of queued requests
  error,                   \* useState error: TRUE when a message is shown
  isClosing,               \* useState
  speakingStatus,          \* localStorage avatarSpeakingStatus.status
  idleVideo, toLiveVideo, toIdleVideo,   \* playback state of the three clips
  timeouts,                \* active expiry timeouts: records [id, rem]
  intervals,               \* active countdown intervals: ids
  inactivityTimeoutRef, inactivityIntervalRef, inactivityCountdownRef,
  rearmed,                 \* auxiliary: the active timer was armed over an active one
  cancelled,               \* auxiliary: user input or a 'started' notification has
                           \* called clearInactivityTimers since the last arm
  initChain,               \* per init chain: [pc, cur]
  session,                 \* remote avatar session status
  stopCalled,              \* auxiliary: sessions on which stopAvatar has been called
  srPending,               \* sessions whose STREAM_READY is still to be delivered
  talking,                 \* sessions whose avatar is talking
  chatTask,                \* per request: [pc, s]
  speakTasks,              \* scheduled / running speakPendingResponse calls
  cleanupTasks,            \* cleanupAvatarSession calls awaiting stopAvatar
  speakCalls,              \* per request: number of speak calls issued (capped at 2)
  storageLeft, failLeft,   \* environment budgets
  repeatLeft,              \* 'ended' events the clips may still deliver a second time
  videoFrame,              \* the frame the live <video> element (videoRef) presents
  videoReadyState,         \* videoRef.current.readyState
  chromaKeyConfigRef,      \* useRef: the chroma-key options in use
  chromaLoop,              \* the requestAnimationFrame loop of startChromaKey
  canvasData,              \* the image data last put on the target canvas (canvasRef)
  isLoading,               \* useState of the chat interface window: input disabled
  storedHistory,           \* localStorage avatarChatHistory: <<>> when the key is absent
  chatHistory,             \* per window: useState chatHistory, the history displayed
  lastHistory,             \* per chat interface window: lastHistory of the poll effect
  storageEvents,           \* per chat history window: storage events not yet delivered
  entriesLeft, clearsLeft  \* environment budgets

compVars == <<mounted, phase, pendingTransitionToLive, pendingResponse, avatar,
              isAvatarStreamReady, avatarStreamRef, videoSrc, initializationRef,
              isReadyRef, sessionInitPromiseRef, openaiAssistantRef, cleanupRef,
              pendingChatRequestsRef, error, isClosing, speakingStatus>>
videoVars == <<idleVideo, toLiveVideo, toIdleVideo>>
timerVars == <<timeouts, intervals, inactivityTimeoutRef, inactivityIntervalRef,
               inactivityCountdownRef, rearmed, cancelled>>
taskVars == <<initChain, session, stopCalled, srPending, talking, chatTask, speakTasks,
              cleanupTasks, speakCalls, storageLeft, failLeft>>
chromaVars == <<videoFrame, videoReadyState, chromaKeyConfigRef, chromaLoop, canvasData>>
historyVars == <<storedHistory, chatHistory, lastHistory, storageEvents, entriesLeft, clearsLeft>>
vars == <<compVars, videoVars, timerVars, taskVars, repeatLeft, chromaVars, isLoading,
          historyVars>>

\* ---- helpers ----
Min(S) == CHOOSE x \in S : \A y \in S : x <= y

InitCommon ==
  /\ mounted = TRUE
  /\ phase = "idle"
  /\ pendingTransitionToLive = FALSE
  /\ pendingResponse = 0
  /\ avatar = 0
  /\ isAvatarStreamReady = FALSE
  /\ avatarStreamRef = 0
  /\ videoSrc = 0
  /\ initializationRef = FALSE
  /\ isReadyRef = FALSE
  /\ sessionInitPromiseRef = 0
  /\ openaiAssistantRef = FALSE
  /\ cleanupRef = 0
  /\ pendingChatRequestsRef = <<>>
  /\ error = FALSE
  /\ isClosing = FALSE
  /\ speakingStatus = "none"
  /\ isLoading = FALSE
  /\ idleVideo = "playing"
  /\ toLiveVideo = "stopped"
  /\ toIdleVideo = "stopped"
  /\ timeouts = {}
  /\ intervals = {}
  /\ inactivityTimeoutRef = 0
  /\ inactivityIntervalRef = 0
  /\ inactivityCountdownRef = INITIAL_COUNTDOWN
  /\ rearmed = FALSE
  /\ cancelled = FALSE
  /\ initChain = [c \in Sessions |-> [pc |-> "unused", cur |-> 0]]
  /\ session = [s \in Sessions |-> "none"]
  /\ stopCalled = {}
  /\ srPending = {}
  /\ talking = {}
  /\ chatTask = [q \in Requests |-> [pc |-> "new", s |-> 0]]
  /\ speakTasks = {}
  /\ cleanupTasks = {}
  /\ speakCalls = [q \in Requests |-> 0]
  /\ storageLeft = MaxStorageEvents
  /\ failLeft = MaxFailures

\* ---- chroma-key compositor: options and frames ----
\* number of pixels of a frame
FramePixels == 2
\* values a colour channel and the alpha channel of a source pixel take
ChannelValues == {0, 39, 255}
AlphaValues == {0, 255}
Pixels == ChannelValues \X ChannelValues \X ChannelValues \X AlphaValues
Frames == [1..FramePixels -> Pixels]
\* HTMLMediaElement.readyState: HAVE_NOTHING .. HAVE_ENOUGH_DATA
ReadyStates == 0..4

\* minSaturation and threshold are held in hundredths (the sliders step by 0.01);
\* the values below are exact as doubles, so that the comparisons of the code
\* and the integer comparisons of the model agree
DEFAULT_CONFIG == [minHue |-> 103, maxHue |-> 337, minSaturation |-> 75, threshold |-> 100]
\* options the panel can store: the default, a wide band, a narrow band, and
\* a band whose minHue slider is above its maxHue slider
Configs == { DEFAULT_CONFIG,
             [minHue |-> 0, maxHue |-> 360, minSaturation |-> 0, threshold |-> 50],
             [minHue |-> 60, maxHue |-> 120, minSaturation |-> 50, threshold |-> 200],
             [minHue |-> 300, maxHue |-> 60, minSaturation |-> 0, threshold |-> 50] }

\* the compositor before the live video has presented a frame: the phase
\* controller's specifications leave it there
ChromaOff ==
  /\ videoFrame = <<>>
  /\ videoReadyState = 0
  /\ chromaKeyConfigRef = DEFAULT_CONFIG
  /\ chromaLoop = "off"
  /\ canvasData = <<>>

\* ---- chat history shared between windows ----
\* entries the avatar window appends, and confirmed clears, in one behaviour
MaxEntries == 2
MaxClears == 1
\* windows showing the history: chat interface windows follow the stored
\* history by polling, chat history windows by storage events
InterfaceWindows == {1, 2}
HistoryWindows == {3}
Windows == InterfaceWindows \cup HistoryWindows

\* the windows as mounted over an empty store; as an initial condition of the
\* phase controller's specifications, no entry or clear is left to happen
HistoryMounted ==
  /\ storedHistory = <<>>
  /\ chatHistory = [w \in Windows |-> <<>>]
  /\ lastHistory = [w \in InterfaceWindows |-> <<>>]
  /\ storageEvents = [w \in HistoryWindows |-> <<>>]
HistoryOff == HistoryMounted /\ entriesLeft = 0 /\ clearsLeft = 0

\* every clip delivers its 'ended' event once per playback
Init == InitCommon /\ repeatLeft = 0 /\ ChromaOff /\ HistoryOff

\* ---- inactivity timer ----

\* a clearInactivityTimers whose clearTimeout has no effect: the variant against
\* which the single-instance property is tested
ClearTimeouts_Skip(tos) == tos

\* clearInactivityTimers: clearTimeout / clearInterval of the ids held in the refs
ClearTimeouts(tos) == {t \in tos : t.id # inactivityTimeoutRef}
ClearIntervals(ivs) == ivs \ {inactivityIntervalRef}

\* ids handed out by setTimeout / setInterval are never reused while known
FreshTimeoutId(tos) == Min(TimerIds \ ({t.id : t \in tos} \cup {inactivityTimeoutRef}))
FreshIntervalId(ivs) == Min(TimerIds \ (ivs \cup {inactivityIntervalRef}))
CanArm ==
  /\ TimerIds \ ({t.id : t \in ClearTimeouts(timeouts)} \cup {inactivityTimeoutRef}) # {}
  /\ TimerIds \ (ClearIntervals(intervals) \cup {inactivityIntervalRef}) # {}

\* setTimeout(..., 20000) of the arm sequence
NewTimeout(tos) == [id |-> FreshTimeoutId(tos), rem |-> INACTIVITY_SECONDS]

\* inactivityCountdownRef.current = 20 of the arm sequence
ArmCountdown == INACTIVITY_SECONDS

\* the arm sequence shared by the AVATAR_STOP_TALKING handler and the storage handler
TimersArmed ==
  LET tos == ClearTimeouts(timeouts)
      ivs == ClearIntervals(intervals)
  IN /\ CanArm
     /\ timeouts' = tos \cup {NewTimeout(tos)}
     /\ intervals' = ivs \cup {FreshIntervalId(ivs)}
     /\ inactivityTimeoutRef' = FreshTimeoutId(tos)
     /\ inactivityIntervalRef' = FreshIntervalId(ivs)
     /\ inactivityCountdownRef' = ArmCountdown
     /\ rearmed' = (timeouts # {})
     /\ cancelled' = FALSE

TimersCleared ==
  /\ timeouts' = ClearTimeouts(timeouts)
  /\ intervals' = ClearIntervals(intervals)
  /\ rearmed' = FALSE
  /\ cancelled' = TRUE
  /\ UNCHANGED <<inactivityTimeoutRef, inactivityIntervalRef, inactivityCountdownRef>>

\* the AVATAR_STOP_TALKING handler arms only in phase 'stream' (phaseRef)
StopTalkingArms == phase = "stream"

\* TickSeconds seconds pass: every interval callback runs once per second, every
\* timeout gets closer to its expiry; a due timeout runs before more time passes
Tick ==
  /\ mounted
  /\ timeouts # {}
  /\ \A t \in timeouts : t.rem >= TickSeconds
  /\ timeouts' = {[t EXCEPT !.rem = t.rem - TickSeconds] : t \in timeouts}
  /\ inactivityCountdownRef' = inactivityCountdownRef - TickSeconds * Cardinality(intervals)
  /\ UNCHANGED <<intervals, inactivityTimeoutRef, inactivityIntervalRef, rearmed,
                 cancelled>>
  /\ UNCHANGED <<compVars, videoVars, taskVars>>
  /\ UNCHANGED <<repeatLeft, chromaVars, historyVars, isLoading>>

\* the chat interface window's handler of avatarSpeakingStatus storage events:
\* 'started' enters, 'ended' leaves the loading state.  The event is taken to
\* reach the window in the step that writes the status, and every write is
\* taken to change the stored value
LoadingAfter(status) ==
  IF status = "started" THEN TRUE ELSE IF status = "ended" THEN FALSE ELSE isLoading

\* storage event for avatarSpeakingStatus written by another window
StorageSpeakingStatus(status) ==
  /\ mounted
  /\ storageLeft > 0
  /\ storageLeft' = storageLeft - 1
  /\ IF status = "ended" THEN TimersArmed ELSE TimersCleared
  /\ UNCHANGED <<compVars, videoVars>>
  /\ UNCHANGED <<initChain, session, stopCalled, srPending, talking, chatTask, speakTasks,
                 cleanupTasks, speakCalls, failLeft>>
  /\ UNCHANGED <<repeatLeft, chromaVars, historyVars>>
  /\ isLoading' = LoadingAfter(status)

\* ---- chat requests and session initialization ----

\* phase as seen by the handleChatInput that the storage listener calls: the
\* listener is registered once, by the mount effect, with the first render's closure
ListenerPhase == "idle"

\* an initializeAvatarSession that always returns at its guards: the variant
\* against which the start of initialization is tested
InitGuard_Never == FALSE

\* the two guards at the top of initializeAvatarSession
InitGuard == sessionInitPromiseRef = 0 /\ ~initializationRef

UnusedChains == {c \in Sessions : initChain[c].pc = "unused"}
NewRequests == {q \in Requests : chatTask[q].pc = "new"}
InSeq(x, sq) == \E i \in 1..Len(sq) : sq[i] = x

\* storage event for currentChatRequest: handleChatRequest up to its first await,
\* with handleChatInput and the synchronous part of initializeAvatarSession
ChatRequest ==
  /\ mounted
  /\ NewRequests # {}
  /\ LET q == Min(NewRequests)
         start == ListenerPhase = "idle" /\ InitGuard
     IN /\ start => UnusedChains # {}
        /\ TimersCleared
        /\ pendingTransitionToLive' =
             IF ListenerPhase = "idle" THEN TRUE ELSE pendingTransitionToLive
        /\ initChain' = IF start
                        THEN [initChain EXCEPT ![Min(UnusedChains)].pc = "openai"]
                        ELSE initChain
        /\ sessionInitPromiseRef' = IF start THEN Min(UnusedChains)
                                    ELSE sessionInitPromiseRef
        /\ IF ~isReadyRef
           THEN /\ pendingChatRequestsRef' = Append(pendingChatRequestsRef, q)
                /\ chatTask' = [chatTask EXCEPT ![q].pc = "queued"]
                /\ error' = IF start THEN FALSE ELSE error
           ELSE IF openaiAssistantRef
           THEN /\ chatTask' = [chatTask EXCEPT ![q].pc = "ai"]
                /\ error' = IF start THEN FALSE ELSE error
                /\ UNCHANGED pendingChatRequestsRef
           ELSE /\ chatTask' = [chatTask EXCEPT ![q].pc = "error"]
                /\ error' = TRUE
                /\ UNCHANGED pendingChatRequestsRef
  /\ UNCHANGED <<mounted, phase, pendingResponse, avatar, isAvatarStreamReady,
                 avatarStreamRef, videoSrc, initializationRef, isReadyRef,
                 openaiAssistantRef, cleanupRef, isClosing, speakingStatus>>
  /\ UNCHANGED videoVars
  /\ UNCHANGED <<session, stopCalled, srPending, talking, speakTasks, cleanupTasks, speakCalls,
                 storageLeft, failLeft>>
  /\ UNCHANGED <<repeatLeft, chromaVars, historyVars>>
  /\ isLoading' = TRUE

\* a finally that leaves the stored promise as it is: the variant against which
\* the release of the in-flight guard is tested
PromiseKept == sessionInitPromiseRef

\* sessionInitPromiseRef.current = null of the finally of the init chain
PromiseAfterInit == 0

\* catch and finally of the init chain
InitFailed(c) ==
  /\ failLeft > 0
  /\ failLeft' = failLeft - 1
  /\ error' = TRUE
  /\ initializationRef' = FALSE
  /\ isReadyRef' = FALSE
  /\ sessionInitPromiseRef' = PromiseAfterInit
  /\ initChain' = [initChain EXCEPT ![c] = [pc |-> "failed", cur |-> 0]]

\* await initializeOpenAI() resolves or rejects
InitOpenAIDone(c) ==
  /\ initChain[c].pc = "openai"
  /\ \/ /\ openaiAssistantRef' = TRUE
        /\ initChain' = [initChain EXCEPT ![c].pc = "token"]
        /\ UNCHANGED <<error, initializationRef, isReadyRef, sessionInitPromiseRef, failLeft>>
     \/ /\ InitFailed(c)
        /\ UNCHANGED openaiAssistantRef
  /\ UNCHANGED <<mounted, phase, pendingTransitionToLive, pendingResponse, avatar,
                 isAvatarStreamReady, avatarStreamRef, videoSrc, cleanupRef,
                 pendingChatRequestsRef, isClosing, speakingStatus>>
  /\ UNCHANGED <<videoVars, timerVars>>
  /\ UNCHANGED <<session, stopCalled, srPending, talking, chatTask, speakTasks, cleanupTasks,
                 speakCalls, storageLeft>>
  /\ UNCHANGED <<repeatLeft, chromaVars, historyVars, isLoading>>

\* await fetchAccessToken() resolves (listeners are registered, createStartAvatar
\* is called) or rejects
InitTokenDone(c) ==
  /\ initChain[c].pc = "token"
  /\ UNCHANGED stopCalled
  /\ \/ /\ initChain' = [initChain EXCEPT ![c].pc = "create"]
        /\ session' = [session EXCEPT ![c] = "creating"]
        /\ srPending' = srPending \cup {c}
        /\ UNCHANGED <<error, initializationRef, isReadyRef, sessionInitPromiseRef, failLeft>>
     \/ /\ InitFailed(c)
        /\ UNCHANGED <<session, srPending>>
  /\ UNCHANGED <<mounted, phase, pendingTransitionToLive, pendingResponse, avatar,
                 isAvatarStreamReady, avatarStreamRef, videoSrc, openaiAssistantRef,
                 cleanupRef, pendingChatRequestsRef, isClosing, speakingStatus>>
  /\ UNCHANGED <<videoVars, timerVars>>
  /\ UNCHANGED <<talking, chatTask, speakTasks, cleanupTasks, speakCalls, storageLeft>>
  /\ UNCHANGED <<repeatLeft, chromaVars, historyVars, isLoading>>

\* processPendingChatRequests from the top of its loop to its next await, or to
\* the finally of the init chain; ct and err are chatTask and error so far
ProcessPending(c, ct, err) ==
  IF pendingChatRequestsRef = <<>>
  THEN /\ initChain' = [initChain EXCEPT ![c] = [pc |-> "done", cur |-> 0]]
       /\ sessionInitPromiseRef' = PromiseAfterInit
       /\ chatTask' = ct
       /\ error' = err
       /\ UNCHANGED pendingChatRequestsRef
  ELSE IF openaiAssistantRef
  THEN /\ initChain' = [initChain EXCEPT ![c] =
                          [pc |-> "pending", cur |-> Head(pendingChatRequestsRef)]]
       /\ pendingChatRequestsRef' = Tail(pendingChatRequestsRef)
       /\ chatTask' = [ct EXCEPT ![Head(pendingChatRequestsRef)].pc = "pending_ai"]
       /\ error' = err
       /\ UNCHANGED sessionInitPromiseRef
  ELSE /\ initChain' = [initChain EXCEPT ![c] = [pc |-> "done", cur |-> 0]]
       /\ sessionInitPromiseRef' = PromiseAfterInit
       /\ pendingChatRequestsRef' = <<>>
       /\ chatTask' = [q \in Requests |->
                         IF InSeq(q, pendingChatRequestsRef)
                         THEN [pc |-> "error", s |-> 0] ELSE ct[q]]
       /\ error' = TRUE

\* await createStartAvatar() resolves or rejects
InitCreateDone(c) ==
  /\ initChain[c].pc = "create"
  /\ UNCHANGED stopCalled
  /\ \/ /\ session' = [session EXCEPT ![c] = "open"]
        /\ cleanupRef' = c
        /\ avatar' = c
        /\ initializationRef' = TRUE
        /\ isReadyRef' = TRUE
        /\ ProcessPending(c, chatTask, error)
        /\ UNCHANGED <<srPending, failLeft>>
     \/ /\ InitFailed(c)
        /\ session' = [session EXCEPT ![c] = "failed"]
        /\ srPending' = srPending \ {c}
        /\ UNCHANGED <<cleanupRef, avatar, pendingChatRequestsRef, chatTask>>
  /\ UNCHANGED <<mounted, phase, pendingTransitionToLive, pendingResponse,
                 isAvatarStreamReady, avatarStreamRef, videoSrc, openaiAssistantRef,
                 isClosing, speakingStatus>>
  /\ UNCHANGED <<videoVars, timerVars>>
  /\ UNCHANGED <<talking, speakTasks, cleanupTasks, speakCalls, storageLeft>>
  /\ UNCHANGED <<repeatLeft, chromaVars, historyVars, isLoading>>

\* await getResponse() of processPendingChatRequests resolves or rejects
InitPendingDone(c) ==
  /\ initChain[c].pc = "pending"
  /\ LET q == initChain[c].cur
     IN \/ /\ pendingResponse' = q
           /\ ProcessPending(c, [chatTask EXCEPT ![q].pc = "held"], error)
           /\ UNCHANGED failLeft
        \/ /\ failLeft > 0
           /\ failLeft' = failLeft - 1
           /\ ProcessPending(c, [chatTask EXCEPT ![q].pc = "error"], TRUE)
           /\ UNCHANGED pendingResponse
  /\ UNCHANGED <<mounted, phase, pendingTransitionToLive, avatar, isAvatarStreamReady,
                 avatarStreamRef, videoSrc, initializationRef, isReadyRef,
                 openaiAssistantRef, cleanupRef, isClosing, speakingStatus>>
  /\ UNCHANGED <<videoVars, timerVars>>
  /\ UNCHANGED <<session, stopCalled, srPending, talking, speakTasks, cleanupTasks, speakCalls,
                 storageLeft>>
  /\ UNCHANGED <<repeatLeft, chromaVars, historyVars, isLoading>>

\* STREAM_READY of session s reaches handleStreamReady
StreamReady(s) ==
  /\ mounted
  /\ s \in srPending
  /\ session[s] \in {"creating", "open"}
  /\ srPending' = srPending \ {s}
  /\ avatarStreamRef' = s
  /\ videoSrc' = s
  /\ UNCHANGED <<mounted, phase, pendingTransitionToLive, pendingResponse, avatar,
                 isAvatarStreamReady, initializationRef, isReadyRef,
                 sessionInitPromiseRef, openaiAssistantRef, cleanupRef,
                 pendingChatRequestsRef, error, isClosing, speakingStatus>>
  /\ UNCHANGED <<videoVars, timerVars>>
  /\ UNCHANGED <<initChain, session, stopCalled, talking, chatTask, speakTasks, cleanupTasks,
                 speakCalls, storageLeft, failLeft>>
  /\ UNCHANGED <<repeatLeft, chromaVars, historyVars, isLoading>>

\* ---- phase transitions driven by the clips ----

\* the guard of speakPendingResponse, on the pendingResponse and avatar of the
\* render that scheduled it (its phase is 'stream')
SpeakPendingGuard(pr, av) == pr # 0 /\ av # 0

\* a handler that leaves the pending-transition flag as it is: the variant
\* against which the clearing of the flag is tested
FlagKept == pendingTransitionToLive

\* setPendingTransitionToLive(false) of handleIdleVideoEnd
FlagAfterIdleEnd == FALSE

\* the idle clip has loop = !pendingTransitionToLive, so it ends only while the
\* flag is set
IdleVideoEnded ==
  /\ mounted
  /\ idleVideo = "playing"
  /\ pendingTransitionToLive
  /\ IF phase = "idle" /\ pendingTransitionToLive
     THEN /\ phase' = "to_live"
          /\ pendingTransitionToLive' = FlagAfterIdleEnd
          /\ toLiveVideo' = "playing"
          /\ idleVideo' = "ended"
     ELSE /\ idleVideo' = IF phase = "idle" THEN "playing" ELSE "ended"
          /\ UNCHANGED <<phase, pendingTransitionToLive, toLiveVideo>>
  /\ UNCHANGED <<mounted, pendingResponse, avatar, isAvatarStreamReady, avatarStreamRef,
                 videoSrc, initializationRef, isReadyRef, sessionInitPromiseRef,
                 openaiAssistantRef, cleanupRef, pendingChatRequestsRef, error,
                 isClosing, speakingStatus>>
  /\ UNCHANGED <<toIdleVideo, timerVars, taskVars>>
  /\ UNCHANGED <<repeatLeft, chromaVars, historyVars, isLoading>>

\* handleToLiveVideoEnd, and the two effects of [phase] when the phase changes
HandleToLiveVideoEnd ==
  /\ toLiveVideo' = "ended"
  /\ phase' = "stream"
  /\ IF phase # "stream" /\ avatarStreamRef # 0
     THEN videoSrc' = avatarStreamRef /\ isAvatarStreamReady' = TRUE
     ELSE UNCHANGED <<videoSrc, isAvatarStreamReady>>
  /\ speakTasks' = IF phase # "stream" /\ SpeakPendingGuard(pendingResponse, avatar)
                   THEN speakTasks \cup {[pr |-> pendingResponse, pc |-> "delay", s |-> 0]}
                   ELSE speakTasks
  /\ UNCHANGED <<mounted, pendingTransitionToLive, pendingResponse, avatar,
                 avatarStreamRef, initializationRef, isReadyRef, sessionInitPromiseRef,
                 openaiAssistantRef, cleanupRef, pendingChatRequestsRef, error,
                 isClosing, speakingStatus>>
  /\ UNCHANGED <<idleVideo, toIdleVideo, timerVars>>
  /\ UNCHANGED <<initChain, session, stopCalled, srPending, talking, chatTask, cleanupTasks,
                 speakCalls, storageLeft, failLeft>>

\* the to_live clip reaches its end
ToLiveVideoEnded ==
  /\ mounted
  /\ toLiveVideo = "playing"
  /\ HandleToLiveVideoEnd
  /\ UNCHANGED <<repeatLeft, chromaVars, historyVars, isLoading>>

\* a handler that leaves the phase as it is: the variant against which the
\* return to idle is tested
PhaseKept == phase

\* setPhase('idle') of handleToIdleVideoEnd
PhaseAfterToIdleEnd == "idle"

\* handleToIdleVideoEnd
HandleToIdleVideoEnd ==
  /\ toIdleVideo' = "ended"
  /\ phase' = PhaseAfterToIdleEnd
  /\ pendingTransitionToLive' = FALSE
  /\ idleVideo' = "playing"
  /\ UNCHANGED <<mounted, pendingResponse, avatar, isAvatarStreamReady, avatarStreamRef,
                 videoSrc, initializationRef, isReadyRef, sessionInitPromiseRef,
                 openaiAssistantRef, cleanupRef, pendingChatRequestsRef, error,
                 isClosing, speakingStatus>>
  /\ UNCHANGED <<toLiveVideo, timerVars, taskVars>>

\* the to_idle clip reaches its end
ToIdleVideoEnded ==
  /\ mounted
  /\ toIdleVideo = "playing"
  /\ HandleToIdleVideoEnd
  /\ UNCHANGED <<repeatLeft, chromaVars, historyVars, isLoading>>

\* the 'ended' event of the to_live clip is delivered again after the phase has
\* become 'stream'
ToLiveVideoEndedAgain ==
  /\ mounted
  /\ repeatLeft > 0
  /\ phase = "stream"
  /\ toLiveVideo = "ended"
  /\ repeatLeft' = repeatLeft - 1
  /\ UNCHANGED <<chromaVars, historyVars, isLoading>>
  /\ HandleToLiveVideoEnd

\* the 'ended' event of the to_idle clip is delivered again after the phase has
\* become 'idle'
ToIdleVideoEndedAgain ==
  /\ mounted
  /\ repeatLeft > 0
  /\ phase = "idle"
  /\ toIdleVideo = "ended"
  /\ repeatLeft' = repeatLeft - 1
  /\ UNCHANGED <<chromaVars, historyVars, isLoading>>
  /\ HandleToIdleVideoEnd

\* ---- speaking ----

CountCall(q) == [speakCalls EXCEPT ![q] = IF @ < 2 THEN @ + 1 ELSE @]

\* a catch that leaves avatarSpeakingStatus as it is: the variant against which
\* the bookkeeping of a failed speak call is tested
StatusKept == speakingStatus

\* localStorage avatarSpeakingStatus 'ended' written by the catch of a speak call
StatusAfterFailedSpeak == "ended"

\* the 1 s timeout of the speak effect fires: speakPendingResponse up to its await
SpeakPendingStart(t) ==
  /\ mounted
  /\ t \in speakTasks
  /\ t.pc = "delay"
  /\ IF avatar = 0
     THEN /\ error' = TRUE
          /\ speakingStatus' = StatusAfterFailedSpeak
          /\ isLoading' = LoadingAfter(StatusAfterFailedSpeak)
          /\ speakTasks' = speakTasks \ {t}
          /\ UNCHANGED speakCalls
     ELSE /\ speakingStatus' = "started"
          /\ isLoading' = TRUE
          /\ speakCalls' = CountCall(t.pr)
          /\ speakTasks' = (speakTasks \ {t}) \cup {[pr |-> t.pr, pc |-> "speak", s |-> avatar]}
          /\ UNCHANGED error
  /\ UNCHANGED <<mounted, phase, pendingTransitionToLive, pendingResponse, avatar,
                 isAvatarStreamReady, avatarStreamRef, videoSrc, initializationRef,
                 isReadyRef, sessionInitPromiseRef, openaiAssistantRef, cleanupRef,
                 pendingChatRequestsRef, isClosing>>
  /\ UNCHANGED <<videoVars, timerVars>>
  /\ UNCHANGED <<initChain, session, stopCalled, srPending, talking, chatTask, cleanupTasks,
                 storageLeft, failLeft>>
  /\ UNCHANGED <<repeatLeft, chromaVars, historyVars>>

\* await speak() of speakPendingResponse resolves or rejects
SpeakPendingDone(t) ==
  /\ mounted
  /\ t \in speakTasks
  /\ t.pc = "speak"
  /\ speakTasks' = speakTasks \ {t}
  /\ \/ /\ session[t.s] = "open"
        /\ pendingResponse' = 0
        /\ talking' = talking \cup {t.s}
        /\ UNCHANGED <<error, speakingStatus, isLoading, failLeft>>
     \/ /\ session[t.s] # "open" \/ failLeft > 0
        /\ failLeft' = IF session[t.s] = "open" THEN failLeft - 1 ELSE failLeft
        /\ error' = TRUE
        /\ speakingStatus' = StatusAfterFailedSpeak
        /\ isLoading' = LoadingAfter(StatusAfterFailedSpeak)
        /\ UNCHANGED <<pendingResponse, talking>>
  /\ UNCHANGED <<mounted, phase, pendingTransitionToLive, avatar, isAvatarStreamReady,
                 avatarStreamRef, videoSrc, initializationRef, isReadyRef,
                 sessionInitPromiseRef, openaiAssistantRef, cleanupRef,
                 pendingChatRequestsRef, isClosing>>
  /\ UNCHANGED <<videoVars, timerVars>>
  /\ UNCHANGED <<initChain, session, stopCalled, srPending, chatTask, cleanupTasks, speakCalls,
                 storageLeft>>
  /\ UNCHANGED <<repeatLeft, chromaVars, historyVars>>

\* await getResponse() of handleChatRequest resolves or rejects
ChatAIDone(q) ==
  /\ mounted
  /\ chatTask[q].pc = "ai"
  /\ \/ /\ IF avatar = 0
           THEN /\ error' = TRUE
                /\ speakingStatus' = StatusAfterFailedSpeak
                /\ isLoading' = LoadingAfter(StatusAfterFailedSpeak)
                /\ chatTask' = [chatTask EXCEPT ![q].pc = "speak_failed"]
                /\ UNCHANGED speakCalls
           ELSE /\ speakingStatus' = "started"
                /\ isLoading' = TRUE
                /\ speakCalls' = CountCall(q)
                /\ chatTask' = [chatTask EXCEPT ![q] = [pc |-> "speak", s |-> avatar]]
                /\ UNCHANGED error
        /\ UNCHANGED failLeft
     \/ /\ failLeft > 0
        /\ failLeft' = failLeft - 1
        /\ error' = TRUE
        /\ chatTask' = [chatTask EXCEPT ![q].pc = "error"]
        /\ UNCHANGED <<speakingStatus, isLoading, speakCalls>>
  /\ UNCHANGED <<mounted, phase, pendingTransitionToLive, pendingResponse, avatar,
                 isAvatarStreamReady, avatarStreamRef, videoSrc, initializationRef,
                 isReadyRef, sessionInitPromiseRef, openaiAssistantRef, cleanupRef,
                 pendingChatRequestsRef, isClosing>>
  /\ UNCHANGED <<videoVars, timerVars>>
  /\ UNCHANGED <<initChain, session, stopCalled, srPending, talking, speakTasks, cleanupTasks,
                 storageLeft>>
  /\ UNCHANGED <<repeatLeft, chromaVars, historyVars>>

\* await speak() of handleChatRequest resolves or rejects
ChatSpeakDone(q) ==
  /\ mounted
  /\ chatTask[q].pc = "speak"
  /\ \/ /\ session[chatTask[q].s] = "open"
        /\ speakingStatus' = "ended"
        /\ isLoading' = FALSE
        /\ talking' = talking \cup {chatTask[q].s}
        /\ chatTask' = [chatTask EXCEPT ![q].pc = "spoken"]
        /\ UNCHANGED <<error, failLeft>>
     \/ /\ session[chatTask[q].s] # "open" \/ failLeft > 0
        /\ failLeft' = IF session[chatTask[q].s] = "open" THEN failLeft - 1 ELSE failLeft
        /\ error' = TRUE
        /\ speakingStatus' = StatusAfterFailedSpeak
        /\ isLoading' = LoadingAfter(StatusAfterFailedSpeak)
        /\ chatTask' = [chatTask EXCEPT ![q].pc = "speak_failed"]
        /\ UNCHANGED talking
  /\ UNCHANGED <<mounted, phase, pendingTransitionToLive, pendingResponse, avatar,
                 isAvatarStreamReady, avatarStreamRef, videoSrc, initializationRef,
                 isReadyRef, sessionInitPromiseRef, openaiAssistantRef, cleanupRef,
                 pendingChatRequestsRef, isClosing>>
  /\ UNCHANGED <<videoVars, timerVars>>
  /\ UNCHANGED <<initChain, session, stopCalled, srPending, speakTasks, cleanupTasks, speakCalls,
                 storageLeft>>
  /\ UNCHANGED <<repeatLeft, chromaVars, historyVars>>

\* AVATAR_STOP_TALKING of session s reaches its handler (which is never removed)
StopTalking(s) ==
  /\ mounted
  /\ s \in talking
  /\ talking' = talking \ {s}
  /\ speakingStatus' = "ended"
  /\ isLoading' = FALSE
  /\ IF StopTalkingArms THEN TimersArmed ELSE UNCHANGED timerVars
  /\ UNCHANGED <<mounted, phase, pendingTransitionToLive, pendingResponse, avatar,
                 isAvatarStreamReady, avatarStreamRef, videoSrc, initializationRef,
                 isReadyRef, sessionInitPromiseRef, openaiAssistantRef, cleanupRef,
                 pendingChatRequestsRef, error, isClosing>>
  /\ UNCHANGED videoVars
  /\ UNCHANGED <<initChain, session, stopCalled, srPending, chatTask, speakTasks, cleanupTasks,
                 speakCalls, storageLeft, failLeft>>
  /\ UNCHANGED <<repeatLeft, chromaVars, historyVars>>

\* ---- teardown ----

\* the callback stored in cleanupRef: removes the STREAM_READY and
\* STREAM_DISCONNECTED listeners of its session and detaches the display
ListenersRemoved(sr) == IF cleanupRef # 0 THEN sr \ {cleanupRef} ELSE sr

\* requests whose handling the unmounted component no longer shows
Dropped(ct) ==
  [q \in Requests |->
     IF ct[q].pc \in {"new", "spoken", "error", "speak_failed"}
     THEN ct[q] ELSE [pc |-> "dropped", s |-> 0]]

\* onClose unmounts the component: the cleanups of the mount effect and of the
\* storage effect run, React discards the component's state and its elements.
\* From here on only session creation and stopAvatar calls in flight are followed.
Unmount(sr, tos, ivs) ==
  /\ mounted' = FALSE
  /\ initializationRef' = FALSE
  /\ isReadyRef' = FALSE
  /\ sessionInitPromiseRef' = 0
  /\ openaiAssistantRef' = FALSE
  /\ srPending' = ListenersRemoved(sr)
  /\ videoSrc' = 0
  /\ timeouts' = ClearTimeouts(tos)
  /\ intervals' = ClearIntervals(ivs)
  /\ rearmed' = FALSE
  /\ cancelled' = FALSE
  /\ isClosing' = FALSE
  /\ pendingTransitionToLive' = FALSE
  /\ pendingResponse' = 0
  /\ isAvatarStreamReady' = FALSE
  /\ avatarStreamRef' = 0
  /\ pendingChatRequestsRef' = <<>>
  /\ error' = FALSE
  /\ idleVideo' = "stopped"
  /\ toLiveVideo' = "stopped"
  /\ toIdleVideo' = "stopped"
  /\ chatTask' = Dropped(chatTask)
  /\ speakTasks' = {}
  /\ talking' = {}
  /\ storageLeft' = 0
  /\ cleanupRef' = 0
  /\ inactivityTimeoutRef' = 0
  /\ inactivityIntervalRef' = 0
  /\ inactivityCountdownRef' = INITIAL_COUNTDOWN
  /\ UNCHANGED <<phase, speakingStatus, speakCalls>>

\* cleanupAvatarSession after stopAvatar (cleared: the lines after it ran, FALSE
\* when it threw) with its finally, followed by what transitionToIdlePhase does
\* next: setPhase('to_idle') and play the to_idle clip
CleanupEndToIdle(cleared, err, tos, ivs, tk) ==
  /\ isClosing' = FALSE
  /\ error' = err
  /\ initializationRef' = IF cleared THEN FALSE ELSE initializationRef
  /\ isReadyRef' = IF cleared THEN FALSE ELSE isReadyRef
  /\ sessionInitPromiseRef' = IF cleared THEN 0 ELSE sessionInitPromiseRef
  /\ openaiAssistantRef' = IF cleared THEN FALSE ELSE openaiAssistantRef
  /\ videoSrc' = IF cleared THEN 0 ELSE videoSrc
  /\ phase' = IF mounted THEN "to_idle" ELSE phase
  /\ toIdleVideo' = IF mounted THEN "playing" ELSE toIdleVideo
  /\ timeouts' = tos
  /\ intervals' = ivs
  /\ rearmed' = IF tos = {} THEN FALSE ELSE rearmed
  /\ talking' = tk
  /\ UNCHANGED <<mounted, srPending, pendingTransitionToLive, pendingResponse,
                 isAvatarStreamReady, avatarStreamRef, cleanupRef,
                 pendingChatRequestsRef, idleVideo, toLiveVideo, chatTask, speakTasks,
                 storageLeft, inactivityTimeoutRef, inactivityIntervalRef,
                 inactivityCountdownRef, cancelled, speakingStatus, speakCalls>>

\* the end of cleanupAvatarSession and the step of its caller that follows
CleanupEnd(next, cleared, err, tos, ivs, tk) ==
  IF next = "close"
  THEN Unmount(srPending, tos, ivs)
  ELSE CleanupEndToIdle(cleared, err, tos, ivs, tk)

\* cleanupAvatarSession up to its await of stopAvatar
CleanupAwaitStop(next, tos, ivs) ==
  /\ isClosing' = TRUE
  /\ srPending' = ListenersRemoved(srPending)
  /\ videoSrc' = IF cleanupRef # 0 THEN 0 ELSE videoSrc
  /\ cleanupTasks' = cleanupTasks \cup {[s |-> avatar, next |-> next]}
  /\ stopCalled' = stopCalled \cup {avatar}
  /\ timeouts' = tos
  /\ intervals' = ivs
  /\ rearmed' = IF tos = {} THEN FALSE ELSE rearmed
  /\ UNCHANGED <<mounted, phase, pendingTransitionToLive, pendingResponse, avatar,
                 isAvatarStreamReady, avatarStreamRef, initializationRef, isReadyRef,
                 sessionInitPromiseRef, openaiAssistantRef, cleanupRef,
                 pendingChatRequestsRef, error, speakingStatus>>
  /\ UNCHANGED <<videoVars, inactivityTimeoutRef, inactivityIntervalRef,
                 inactivityCountdownRef, cancelled>>
  /\ UNCHANGED <<initChain, session, talking, chatTask, speakTasks, speakCalls,
                 storageLeft, failLeft>>

\* cleanupAvatarSession when avatarRef holds no avatar: nothing is stopped and
\* nothing is awaited
CleanupNoAvatar(next, tos, ivs) ==
  /\ IF next = "close"
     THEN Unmount(ListenersRemoved(srPending), tos, ivs)
     ELSE /\ CleanupEndToIdle(TRUE, error, tos, ivs, talking)
  /\ UNCHANGED <<avatar, initChain, session, stopCalled, cleanupTasks, failLeft>>

\* a stopAvatar call is needed exactly when avatarRef holds an avatar
StopNeeded == avatar # 0

\* the expiry timeout of the inactivity timer fires: clearInactivityTimers and
\* transitionToIdlePhase
Expire(t) ==
  /\ mounted
  /\ t \in timeouts
  /\ t.rem = 0
  /\ IF StopNeeded
     THEN CleanupAwaitStop("to_idle", ClearTimeouts(timeouts \ {t}), ClearIntervals(intervals))
     ELSE CleanupNoAvatar("to_idle", ClearTimeouts(timeouts \ {t}), ClearIntervals(intervals))
  /\ UNCHANGED <<repeatLeft, chromaVars, historyVars, isLoading>>

\* the Close button (disabled while isClosing): terminateAvatarSession
Close ==
  /\ mounted
  /\ ~isClosing
  /\ IF StopNeeded
     THEN CleanupAwaitStop("close", timeouts, intervals)
     ELSE CleanupNoAvatar("close", timeouts, intervals)
  /\ UNCHANGED <<repeatLeft, chromaVars, historyVars, isLoading>>

\* await stopAvatar() of cleanupAvatarSession resolves or rejects
StopDone(k) ==
  /\ k \in cleanupTasks
  /\ cleanupTasks' = cleanupTasks \ {k}
  /\ \/ /\ session' = [session EXCEPT ![k.s] = IF @ = "open" THEN "closed" ELSE @]
        /\ avatar' = 0
        /\ CleanupEnd(k.next, TRUE, error, timeouts, intervals, talking \ {k.s})
        /\ UNCHANGED failLeft
     \/ /\ failLeft > 0
        /\ failLeft' = failLeft - 1
        /\ CleanupEnd(k.next, FALSE, TRUE, timeouts, intervals, talking)
        /\ avatar' = IF k.next = "close" THEN 0 ELSE avatar
        /\ UNCHANGED session
  /\ UNCHANGED <<initChain, stopCalled>>
  /\ UNCHANGED <<repeatLeft, chromaVars, historyVars, isLoading>>

\* ---- specification ----

Next ==
  \/ ChatRequest
  \/ \E c \in Sessions : InitOpenAIDone(c)
  \/ \E c \in Sessions : InitTokenDone(c)
  \/ \E c \in Sessions : InitCreateDone(c)
  \/ \E c \in Sessions : InitPendingDone(c)
  \/ \E s \in Sessions : StreamReady(s)
  \/ IdleVideoEnded
  \/ ToLiveVideoEnded
  \/ ToIdleVideoEnded
  \/ \E t \in SpeakTaskRecs : SpeakPendingStart(t)
  \/ \E t \in SpeakTaskRecs : SpeakPendingDone(t)
  \/ \E q \in Requests : ChatAIDone(q)
  \/ \E q \in Requests : ChatSpeakDone(q)
  \/ \E s \in Sessions : StopTalking(s)
  \/ \E status \in {"started", "ended"} : StorageSpeakingStatus(status)
  \/ Tick
  \/ \E t \in TimeoutRecs : Expire(t)
  \/ Close
  \/ \E k \in CleanupTaskRecs : StopDone(k)

Spec == Init /\ [][Next]_vars

\* the events that happen by themselves once they are due: calls in flight
\* resolve or reject, events of the avatar service are delivered, clips reach
\* their end, timers fire; not among them: a new request, a storage event of
\* another window, the Close button
DueAll ==
  \/ \E c \in Sessions : InitOpenAIDone(c)
  \/ \E c \in Sessions : InitTokenDone(c)
  \/ \E c \in Sessions : InitCreateDone(c)
  \/ \E c \in Sessions : InitPendingDone(c)
  \/ \E s \in Sessions : StreamReady(s)
  \/ IdleVideoEnded
  \/ ToLiveVideoEnded
  \/ ToIdleVideoEnded
  \/ \E t \in SpeakTaskRecs : SpeakPendingStart(t)
  \/ \E t \in SpeakTaskRecs : SpeakPendingDone(t)
  \/ \E q \in Requests : ChatAIDone(q)
  \/ \E q \in Requests : ChatSpeakDone(q)
  \/ \E s \in Sessions : StopTalking(s)
  \/ Tick
  \/ \E t \in TimeoutRecs : Expire(t)
  \/ \E k \in CleanupTaskRecs : StopDone(k)

\* the same component when a clip may deliver its 'ended' event a second time
InitRepeat == InitCommon /\ repeatLeft = MaxRepeats /\ ChromaOff /\ HistoryOff

NextRepeat ==
  \/ Next
  \/ ToLiveVideoEndedAgain
  \/ ToIdleVideoEndedAgain

SpecRepeat == InitRepeat /\ [][NextRepeat]_vars

\* the scenario of one user input, no other window writing avatarSpeakingStatus:
\* the events that happen by themselves once they are due
DueScenario ==
  \/ NewRequests = Requests /\ ChatRequest
  \/ \E c \in Sessions : InitOpenAIDone(c)
  \/ \E c \in Sessions : InitTokenDone(c)
  \/ \E c \in Sessions : InitCreateDone(c)
  \/ \E c \in Sessions : InitPendingDone(c)
  \/ \E s \in Sessions : StreamReady(s)
  \/ IdleVideoEnded
  \/ ToLiveVideoEnded
  \/ ToIdleVideoEnded
  \/ \E t \in SpeakTaskRecs : SpeakPendingStart(t)
  \/ \E t \in SpeakTaskRecs : SpeakPendingDone(t)
  \/ \E s \in Sessions : StopTalking(s)
  \/ Tick
  \/ \E t \in TimeoutRecs : Expire(t)
  \/ \E k \in CleanupTaskRecs : StopDone(k)

\* the user may close the view at any time
NextScenario ==
  \/ DueScenario
  \/ Close

\* every event that is due happens: calls in flight resolve, clips reach their
\* end, timers fire; nothing makes the user close the view
SpecScenario == Init /\ [][NextScenario]_vars /\ WF_vars(DueScenario)

\* ---- chroma-key compositor ----
\* The compositor shares no state with the phase controller: the <video> and
\* <canvas> elements are rendered in every phase, and the loop reads only the
\* video element, the canvas and chromaKeyConfigRef.  SpecChroma runs it alone.

Max3(x, y, z) == IF x >= y /\ x >= z THEN x ELSE IF y >= z THEN y ELSE z
Min3(x, y, z) == IF x <= y /\ x <= z THEN x ELSE IF y <= z THEN y ELSE z

\* the JavaScript remainder n % m for m > 0: it has the sign of the dividend
JsRem(n, m) == IF n >= 0 THEN n % m ELSE 0 - ((0 - n) % m)

\* Math.round of the fraction num / den, den > 0: ties go up.  For the channel
\* values of the model h * 60 is never a tie; at a tie the doubles of the code
\* can fall just below it (r, g, b = 0, 24, 1 gives 122 where the exact
\* quotient 122.5 rounds to 123)
MathRound(num, den) == (2 * num + den) \div (2 * den)

\* h before rounding, as the pair <<numerator, denominator>> of h * 60
HueSixty(r, g, b) ==
  LET max == Max3(r, g, b)
      delta == max - Min3(r, g, b)
  IN  IF delta = 0 THEN <<0, 1>>
      ELSE IF max = r THEN <<60 * JsRem(g - b, 6 * delta), delta>>
      ELSE IF max = g THEN <<60 * (b - r) + 120 * delta, delta>>
      ELSE <<60 * (r - g) + 240 * delta, delta>>

\* h: the hue in whole degrees
Hue(r, g, b) ==
  LET hs == HueSixty(r, g, b)
      h == MathRound(hs[1], hs[2])
  IN  IF h < 0 THEN h + 360 ELSE h

\* s > options.minSaturation, with s = max === 0 ? 0 : delta / max
SaturationAbove(r, g, b, options) ==
  LET max == Max3(r, g, b)
      delta == max - Min3(r, g, b)
  IN  IF max = 0 THEN 0 > options.minSaturation
      ELSE 100 * delta > options.minSaturation * max

\* v > 0.15, with v = max / 255
ValueAbove(r, g, b) == 100 * Max3(r, g, b) > 15 * 255

\* a band read as wrapping through 0/360 degrees when minHue > maxHue
HueInBand_Wrap(h, options) ==
  IF options.minHue <= options.maxHue
  THEN h >= options.minHue /\ h <= options.maxHue
  ELSE h >= options.minHue \/ h <= options.maxHue

\* h >= options.minHue && h <= options.maxHue
HueInBand(h, options) == h >= options.minHue /\ h <= options.maxHue

isGreen(px, options) ==
  LET r == px[1]
      g == px[2]
      b == px[3]
  IN  /\ HueInBand(Hue(r, g, b), options)
      /\ SaturationAbove(r, g, b, options)
      /\ ValueAbove(r, g, b)
      /\ 100 * g > r * options.threshold
      /\ 100 * g > b * options.threshold

\* a keyed pixel made transparent instead of opaque
KeyedPixel_Transparent == <<0, 0, 0, 0>>

\* data[i] = 0; data[i + 1] = 0; data[i + 2] = 0; data[i + 3] = 255
KeyedPixel == <<0, 0, 0, 255>>

\* the loop over the image data, from pixel i on, writing in place
RECURSIVE KeyLoop(_, _, _)
KeyLoop(data, i, options) ==
  IF i > Len(data) THEN data
  ELSE KeyLoop(IF isGreen(data[i], options) THEN [data EXCEPT ![i] = KeyedPixel] ELSE data,
               i + 1, options)

\* every tick is taken to have a decodable frame
FrameDecodable_Always == TRUE

\* the negation of the early return: sourceVideo.readyState < 2
FrameDecodable == videoReadyState >= 2

\* applyChromaKey(videoRef.current, canvasRef.current, chromaKeyConfigRef.current):
\* without a decodable frame it returns before touching the canvas; a frame
\* drawn while readyState < 2 would draw nothing on the resized, cleared canvas
applyChromaKey ==
  canvasData' = IF FrameDecodable
                THEN IF videoReadyState >= 2
                     THEN KeyLoop(videoFrame, 1, chromaKeyConfigRef)
                     ELSE [i \in 1..FramePixels |-> <<0, 0, 0, 0>>]
                ELSE canvasData

\* render(): one tick of the loop, which schedules the next one
render ==
  /\ applyChromaKey
  /\ chromaLoop' = "scheduled"

\* the mounted component: the config effect has read the stored options (or
\* kept the default), tryStart has found the video without data
InitChroma ==
  /\ InitCommon
  /\ repeatLeft = 0
  /\ videoFrame \in Frames
  /\ videoReadyState = 0
  /\ chromaKeyConfigRef \in Configs
  /\ chromaLoop = "off"
  /\ canvasData = <<>>
  /\ HistoryOff

\* a storage event for the key 'chromaKeyConfig'
ConfigStorage(c) ==
  /\ c # chromaKeyConfigRef
  /\ chromaKeyConfigRef' = c
  /\ UNCHANGED <<videoFrame, videoReadyState, chromaLoop, canvasData>>
  /\ UNCHANGED <<compVars, videoVars, timerVars, taskVars, repeatLeft, isLoading, historyVars>>

\* the video element gets a source and fires 'loadedmetadata' with readyState
\* n: tryStart starts the loop once, startChromaKey renders the first tick
LoadedMetadata(n) ==
  /\ videoReadyState = 0
  /\ n >= 1
  /\ chromaLoop # "stopped"
  /\ videoReadyState' = n
  /\ IF n >= 2 /\ chromaLoop = "off"
     THEN /\ canvasData' = KeyLoop(videoFrame, 1, chromaKeyConfigRef)
          /\ chromaLoop' = "scheduled"
     ELSE UNCHANGED <<chromaLoop, canvasData>>
  /\ UNCHANGED <<videoFrame, chromaKeyConfigRef>>
  /\ UNCHANGED <<compVars, videoVars, timerVars, taskVars, repeatLeft, isLoading, historyVars>>

\* the element's readyState changes without a 'loadedmetadata' event: more or
\* less data buffered, or the source taken away (srcObject = null)
ReadyStateChange(n) ==
  /\ videoReadyState # 0
  /\ n # videoReadyState
  /\ videoReadyState' = n
  /\ UNCHANGED <<videoFrame, chromaKeyConfigRef, chromaLoop, canvasData>>
  /\ UNCHANGED <<compVars, videoVars, timerVars, taskVars, repeatLeft, isLoading, historyVars>>

\* the animation-frame callback of a running loop
RenderTick ==
  /\ chromaLoop = "scheduled"
  /\ render
  /\ UNCHANGED <<videoFrame, videoReadyState, chromaKeyConfigRef>>
  /\ UNCHANGED <<compVars, videoVars, timerVars, taskVars, repeatLeft, isLoading, historyVars>>

\* cleanup of the start effect: the loop is stopped, the listener removed
ChromaCleanup ==
  /\ chromaLoop # "stopped"
  /\ chromaLoop' = "stopped"
  /\ UNCHANGED <<videoFrame, videoReadyState, chromaKeyConfigRef, canvasData>>
  /\ UNCHANGED <<compVars, videoVars, timerVars, taskVars, repeatLeft, isLoading, historyVars>>

\* a step in which applyChromaKey gets past its early return and puts image
\* data on the canvas
ChromaWrite ==
  \/ RenderTick /\ videoReadyState >= 2
  \/ \E n \in ReadyStates : LoadedMetadata(n) /\ n >= 2 /\ chromaLoop = "off"

NextChroma ==
  \/ \E c \in Configs : ConfigStorage(c)
  \/ \E n \in ReadyStates : LoadedMetadata(n)
  \/ \E n \in ReadyStates : ReadyStateChange(n)
  \/ RenderTick
  \/ ChromaCleanup

SpecChroma == InitChroma /\ [][NextChroma]_vars

\* ---- chat history shared between windows ----
\* The stored history is a sequence of entry numbers; the key holds either
\* nothing or a non-empty array (updateChatHistory is its only writer), so the
\* empty sequence stands for the absent key.  The '...' entry a window shows
\* for its own unanswered question is not part of the stored history and is
\* left out.  SpecHistory runs these windows alone.

\* updateChatHistory of the avatar window: the entry is appended to the stored
\* history, and every other window gets a storage event with the new value
UpdateChatHistory ==
  /\ entriesLeft > 0
  /\ entriesLeft' = entriesLeft - 1
  /\ LET updatedHistory == Append(storedHistory, MaxEntries - entriesLeft + 1)
     IN /\ storedHistory' = updatedHistory
        /\ storageEvents' = [w \in HistoryWindows |->
                               Append(storageEvents[w], updatedHistory)]
  /\ UNCHANGED <<chatHistory, lastHistory, clearsLeft>>
  /\ UNCHANGED <<compVars, videoVars, timerVars, taskVars, repeatLeft, chromaVars, isLoading>>

\* handleConfirmClear in window w: the key is removed, the window's own state
\* is emptied, the chatHistoryUpdate event and the synthetic storage event are
\* dispatched on the window itself; the other windows get a storage event
\* with newValue null if the key was there
handleConfirmClear(w) ==
  /\ clearsLeft > 0
  /\ clearsLeft' = clearsLeft - 1
  /\ storedHistory' = <<>>
  /\ chatHistory' = [chatHistory EXCEPT ![w] = <<>>]
  /\ storageEvents' = [v \in HistoryWindows |->
                         IF v # w /\ storedHistory # <<>>
                         THEN Append(storageEvents[v], <<>>)
                         ELSE storageEvents[v]]
  /\ UNCHANGED <<lastHistory, entriesLeft>>
  /\ UNCHANGED <<compVars, videoVars, timerVars, taskVars, repeatLeft, chromaVars, isLoading>>

\* the 1 s interval of the poll effect of chat interface window w: an absent
\* key (`history &&` false) and an unchanged value leave the window as it is
PollTick(w) ==
  /\ LET history == storedHistory
     IN IF history # <<>> /\ history # lastHistory[w]
        THEN /\ chatHistory' = [chatHistory EXCEPT ![w] = history]
             /\ lastHistory' = [lastHistory EXCEPT ![w] = history]
        ELSE UNCHANGED <<chatHistory, lastHistory>>
  /\ UNCHANGED <<storedHistory, storageEvents, entriesLeft, clearsLeft>>
  /\ UNCHANGED <<compVars, videoVars, timerVars, taskVars, repeatLeft, chromaVars, isLoading>>

\* a storage event for the key avatarChatHistory reaches the listener of chat
\* history window w: `e.newValue` is false for a removal, which is ignored
DeliverStorage(w) ==
  /\ storageEvents[w] # <<>>
  /\ storageEvents' = [storageEvents EXCEPT ![w] = Tail(@)]
  /\ LET newValue == Head(storageEvents[w])
     IN chatHistory' = [chatHistory EXCEPT ![w] = IF newValue # <<>> THEN newValue ELSE @]
  /\ UNCHANGED <<storedHistory, lastHistory, entriesLeft, clearsLeft>>
  /\ UNCHANGED <<compVars, videoVars, timerVars, taskVars, repeatLeft, chromaVars, isLoading>>

InitHistory ==
  /\ InitCommon
  /\ repeatLeft = 0
  /\ ChromaOff
  /\ HistoryMounted
  /\ entriesLeft = MaxEntries
  /\ clearsLeft = MaxClears

NextHistory ==
  \/ UpdateChatHistory
  \/ \E w \in Windows : handleConfirmClear(w)
  \/ \E w \in InterfaceWindows : PollTick(w)
  \/ \E w \in HistoryWindows : DeliverStorage(w)

\* the interval of every chat interface window keeps firing, and every storage
\* event is delivered
SpecHistory ==
  /\ InitHistory
  /\ [][NextHistory]_vars
  /\ \A w \in InterfaceWindows : WF_vars(PollTick(w))
  /\ \A w \in HistoryWindows : WF_vars(DeliverStorage(w))

TypeOK ==
  /\ phase \in Phases
  /\ avatar \in {0} \cup Sessions
  /\ pendingResponse \in {0} \cup Requests
  /\ Cardinality(timeouts) <= MaxTimers

\* ---- properties ----

\* C1: every change of phase is one of idle -> to_live, to_live -> stream,
\* stream -> to_idle, to_idle -> idle; no other phase change ever occurs.
C1_PhaseChangesFollowCycle ==
  [][phase' # phase =>
       <<phase, phase'>> \in {<<"idle", "to_live">>, <<"to_live", "stream">>,
                              <<"stream", "to_idle">>, <<"to_idle", "idle">>}]_vars

\* C2: whenever a speak call starts, from handleChatRequest or from
\* speakPendingResponse, the phase is stream; no speak call is issued while the
\* phase is idle or to_live.
C2_SpeakOnlyInStream ==
  [][((\E q \in Requests : chatTask[q].pc # "speak" /\ chatTask'[q].pc = "speak")
       \/ (\E t \in speakTasks' \ speakTasks : t.pc = "speak"))
     => phase = "stream"]_vars

\* C3: whenever speakPendingResponse issues a speak call, the phase is stream
\* and the stream-ready flag isAvatarStreamReady is true.
C3_PendingSpokenOnlyWhenStreamReady ==
  [][(\E t \in speakTasks' \ speakTasks : t.pc = "speak")
     => phase = "stream" /\ isAvatarStreamReady]_vars

\* C4: a response held as pendingResponse is delivered by a speak call exactly
\* once: never by two speak calls, and it leaves the pending slot only by having
\* been spoken (while the view is open).
C4_HeldResponseSpokenExactlyOnce ==
  \A q \in Requests :
    chatTask[q].pc = "held" =>
      /\ speakCalls[q] <= 1
      /\ pendingResponse # q => speakCalls[q] = 1

\* C5: at most one session-initialization sequence (AI init, token fetch,
\* createStartAvatar) is in flight at any time, and at most one remote session
\* is being created or open at any time.
C5_SingleInitialization ==
  /\ Cardinality({c \in Sessions : initChain[c].pc \in {"openai", "token", "create"}}) <= 1
  /\ Cardinality({s \in Sessions : session[s] \in {"creating", "open"}}) <= 1

\* C6: after the user has closed the view and everything in flight has
\* resolved, no remote session is open -- also when no service call ever failed.
C6_NoSessionOpenAfterClose ==
  (/\ ~mounted
   /\ cleanupTasks = {}
   /\ \A c \in Sessions : initChain[c].pc \in {"unused", "done", "failed"}
   /\ failLeft = MaxFailures)
  => \A s \in Sessions : session[s] # "open"

\* C7: if an inactivity expiry is pending then the phase is stream.
C7_TimerArmedOnlyInStream ==
  timeouts # {} => phase = "stream"

\* C8: when a speak call starts (from handleChatRequest or speakPendingResponse)
\* the inactivity timer is cancelled: no expiry is pending once the avatar has
\* been told to speak.
C8_SpeechCancelsTimer ==
  [][((\E q \in Requests : chatTask[q].pc # "speak" /\ chatTask'[q].pc = "speak")
       \/ (\E t \in speakTasks' \ speakTasks : t.pc = "speak"))
     => timeouts' = {}]_vars

\* C9: when the phase changes from stream to to_idle the live session has been
\* torn down: no remote session is open, the avatar handle and the ready /
\* initialized flags are cleared and the display is detached.
C9_TeardownBeforeToIdle ==
  [][(phase = "stream" /\ phase' = "to_idle") =>
       /\ \A s \in Sessions : session'[s] # "open"
       /\ avatar' = 0
       /\ ~isReadyRef'
       /\ ~initializationRef'
       /\ videoSrc' = 0]_vars

\* C10: at most one inactivity-timer instance is active: one expiry timeout,
\* the one held in inactivityTimeoutRef, and one countdown interval, the one
\* held in inactivityIntervalRef; the expiry is due 20 seconds after the most
\* recent arm, and the countdown, reset to 20 by every arm, shows the time left.
C10_SingleTimerInstance ==
  /\ Cardinality(timeouts) <= 1
  /\ Cardinality(intervals) <= 1
  /\ (timeouts = {}) <=> (intervals = {})
  /\ \A t \in timeouts :
       /\ t.id = inactivityTimeoutRef
       /\ t.rem <= INACTIVITY_SECONDS
       /\ t.rem = inactivityCountdownRef
  /\ \A i \in intervals : i = inactivityIntervalRef

\* C10 witness: a timer armed over an active one is about to expire, alone,
\* with the countdown at 0
C10_RearmedTimerDue ==
  /\ rearmed
  /\ \E t \in timeouts : t.rem = 0 /\ timeouts = {t}
  /\ inactivityCountdownRef = 0

\* C11: cancelling the inactivity timer (clearInactivityTimers on user input or
\* on a 'started' notification) takes every effect from the expiry scheduled
\* before: from the cancel until the next arm the phase does not become to_idle.
C11_NoToIdleAfterCancel ==
  [][(cancelled /\ cancelled') => (phase' = "to_idle" => phase = "to_idle")]_vars

\* C12: an 'ended' event of the to_live clip delivered again in phase stream, or
\* of the to_idle clip delivered again in phase idle, changes nothing: phase,
\* pending-transition flag, pending response, timers, session state, speak
\* calls and clips stay as they are.
C12_RepeatedEndedIsNoOp ==
  [][repeatLeft' < repeatLeft =>
       UNCHANGED <<compVars, videoVars, timerVars, taskVars>>]_vars

\* C13: when the idle clip ends in phase idle the phase becomes to_live and the
\* pending-transition flag is cleared in the same step; the phase becomes
\* to_live only in this way, with the flag set before and cleared after; with
\* the flag not set the phase does not become to_live and the flag stays false
\* until an input sets it.
C13_IdleEndGoesLiveIffPending ==
  [][(mounted' /\ phase = "idle") =>
       /\ (idleVideo = "playing" /\ idleVideo' = "ended") =>
            (pendingTransitionToLive /\ phase' = "to_live" /\ ~pendingTransitionToLive')
       /\ phase' = "to_live" =>
            (pendingTransitionToLive /\ ~pendingTransitionToLive' /\ idleVideo' = "ended")
       /\ ~pendingTransitionToLive => phase' # "to_live"]_vars

\* C13 witness: the idle clip has ended with the flag set: the to_live clip
\* plays in phase to_live and the flag is cleared
C13_WentLive ==
  /\ phase = "to_live"
  /\ toLiveVideo = "playing"
  /\ idleVideo = "ended"
  /\ ~pendingTransitionToLive

C15_StreamReadyFlagInStream ==
  (mounted /\ phase = "stream" /\ avatarStreamRef # 0) => isAvatarStreamReady

\* C16: after one user input, unless a call to the AI service or to the avatar
\* service fails or the user closes the view, the view eventually has gone through to_live and stream, has
\* spoken the response, has been torn down by the inactivity expiry and is back
\* in phase idle through to_idle, with the pending-transition flag cleared and
\* no live session.
C16_ScenarioCompletes ==
  <>(\/ failLeft < MaxFailures
     \/ ~mounted
     \/ /\ phase = "idle"
        /\ ~pendingTransitionToLive
        /\ toLiveVideo = "ended"
        /\ toIdleVideo = "ended"
        /\ speakCalls[1] = 1
        /\ avatar = 0
        /\ \A s \in Sessions : session[s] \notin {"creating", "open"})

\* C17: when the to_idle clip ends while the phase is to_idle, the phase is
\* idle and the pending-transition flag is false afterwards.
C17_ToIdleEndReturnsToIdle ==
  [][(mounted' /\ phase = "to_idle"
      /\ toIdleVideo = "playing" /\ toIdleVideo' = "ended") =>
       (phase' = "idle" /\ ~pendingTransitionToLive')]_vars

\* C17 witness: the to_idle clip has ended: the phase is idle again, the flag is
\* false and the idle clip plays
C17_BackInIdle ==
  /\ phase = "idle"
  /\ toIdleVideo = "ended"
  /\ idleVideo = "playing"
  /\ ~pendingTransitionToLive
  /\ \E s \in Sessions : session[s] = "closed"

\* C18: when a speakPendingResponse call that got past its guard ends, by the
\* speak call resolving, by the speak call rejecting or by the avatar being
\* unavailable, the pending response is cleared, so that a later entry into
\* phase stream cannot speak it again.
C18_PendingClearedAfterSpeak ==
  [][(mounted' /\ \E t \in speakTasks \ speakTasks' :
                     t.pc = "speak" \/ (t.pc = "delay" /\ avatar = 0)) =>
       pendingResponse' = 0]_vars

\* C19: a speak call that fails, because the avatar is unavailable or because
\* speak rejects, in handleChatRequest or in speakPendingResponse, is caught:
\* avatarSpeakingStatus is 'ended' and an error message is set afterwards, and
\* the phase, the session and its flags and the timers are as before.
C19_FailedSpeakCaught ==
  [][((\E q \in Requests : chatTask[q].pc \in {"ai", "speak"}
                            /\ chatTask'[q].pc = "speak_failed")
      \/ (mounted' /\ \E t \in speakTasks \ speakTasks' :
                        \/ t.pc = "speak" /\ failLeft' < failLeft
                        \/ t.pc = "speak" /\ session[t.s] # "open"
                        \/ t.pc = "delay" /\ avatar = 0)) =>
       /\ speakingStatus' = "ended"
       /\ error'
       /\ UNCHANGED <<phase, pendingTransitionToLive, session, avatar, initializationRef,
                      isReadyRef, sessionInitPromiseRef, videoVars, timerVars>>]_vars

\* C19 witness: the speak call of handleChatRequest was rejected by a session
\* that is still open
C19_SpeakRejected ==
  \E q \in Requests :
    /\ chatTask[q].pc = "speak_failed"
    /\ chatTask[q].s # 0
    /\ session[chatTask[q].s] = "open"
    /\ speakingStatus = "ended"
    /\ error

\* C20: when a step of the session initialization fails (AI backend
\* initialization, token fetch, session creation) while the view is open, an
\* error message is set, the phase is as before, initializationRef and
\* isReadyRef are false and the stored promise is released; and an input that
\* arrives while no promise is stored and the session is not initialized starts
\* a new initialization.
C20_InitFailureCaught ==
  [][/\ (mounted /\ \E c \in Sessions : initChain[c].pc \in {"openai", "token", "create"}
                                        /\ initChain'[c].pc = "failed") =>
          /\ error'
          /\ phase' = phase
          /\ ~initializationRef'
          /\ ~isReadyRef'
          /\ sessionInitPromiseRef' = 0
     /\ (sessionInitPromiseRef = 0 /\ ~initializationRef
         /\ \E q \in Requests : chatTask[q].pc = "new" /\ chatTask'[q].pc # "new") =>
          /\ sessionInitPromiseRef' # 0
          /\ initChain[sessionInitPromiseRef'].pc = "unused"
          /\ initChain'[sessionInitPromiseRef'].pc = "openai"]_vars

\* C20 witness: the first initialization has failed and the next input has
\* started a second one
C20_SecondInitAfterFailure ==
  /\ mounted
  /\ initChain[1].pc = "failed"
  /\ initChain[2].pc = "openai"
  /\ sessionInitPromiseRef = 2
  /\ ~initializationRef
  /\ ~isReadyRef

\* C24: the pending-transition flag is true only while the phase is idle: an
\* input received in to_live, stream or to_idle does not set it.
C24_FlagOnlyInIdle ==
  pendingTransitionToLive => phase = "idle"

\* C25: no request is lost: once nothing is in flight and nothing is due any
\* more, every request that the open view has received has either been given
\* exactly one speak call or has ended in an error message -- also when no
\* call to a service ever failed.
C25_NoRequestLost ==
  (mounted /\ failLeft = MaxFailures /\ ~ENABLED DueAll) =>
    \A q \in Requests :
      chatTask[q].pc # "new" =>
        \/ speakCalls[q] = 1 /\ chatTask[q].pc \in {"held", "spoken"}
        \/ chatTask[q].pc \in {"error", "speak_failed"}

\* C26: a remote session is stopped at most once: no two stopAvatar calls are
\* in flight for the same session, and no stopAvatar call is in flight for a
\* session that is already closed.
C26_SessionStoppedOnce ==
  /\ \A k1, k2 \in cleanupTasks : k1.s = k2.s => k1 = k2
  /\ \A k \in cleanupTasks : session[k.s] # "closed"

\* C27: the stream-ready flag and the stored stream describe the current
\* session: while the view is open, a stored stream is the stream of a remote
\* session that is being created or open, and the stream-ready flag is set only
\* while such a stream is stored -- also when no call to a service ever failed.
C27_StreamStateIsCurrent ==
  (mounted /\ failLeft = MaxFailures) =>
    /\ avatarStreamRef # 0 => session[avatarStreamRef] \in {"creating", "open"}
    /\ isAvatarStreamReady => avatarStreamRef # 0

\* C28: after an inactivity teardown, also one whose stopAvatar call failed,
\* the next input in phase idle starts a new session initialization: an input
\* that arrives in phase idle after the return from to_idle, with no
\* initialization and no teardown in flight and with no avatar handle or the
\* handle of a session that has been told to stop, starts an initialization.
C28_ReinitAfterTeardown ==
  [][(/\ mounted'
      /\ phase = "idle"
      /\ toIdleVideo = "ended"
      /\ cleanupTasks = {}
      /\ (avatar = 0 \/ avatar \in stopCalled)
      /\ \A c \in Sessions : initChain[c].pc \notin {"openai", "token", "create", "pending"}
      /\ \E q \in Requests : chatTask[q].pc = "new" /\ chatTask'[q].pc # "new") =>
       \E c \in Sessions : initChain[c].pc = "unused" /\ initChain'[c].pc = "openai"]_vars

\* C21 as stated: whenever the compositor writes a frame, a pixel of the output
\* is (0,0,0,255) if and only if its hue is in [minHue,maxHue], its saturation
\* is above minSaturation, its value is above 0.15 and g exceeds r*threshold
\* and b*threshold; and a pixel failing a condition is unchanged
C21_KeyedIffGreen ==
  [][ChromaWrite =>
       \A i \in 1..FramePixels :
         LET px == videoFrame[i]
             o == chromaKeyConfigRef
             five == /\ Hue(px[1], px[2], px[3]) >= o.minHue
                     /\ Hue(px[1], px[2], px[3]) <= o.maxHue
                     /\ SaturationAbove(px[1], px[2], px[3], o)
                     /\ ValueAbove(px[1], px[2], px[3])
                     /\ 100 * px[2] > px[1] * o.threshold
                     /\ 100 * px[2] > px[3] * o.threshold
         IN  /\ (canvasData'[i] = <<0, 0, 0, 255>>) <=> five
             /\ ~five => canvasData'[i] = px]_vars

\* C21 amended: whenever the compositor writes a frame, every pixel meeting the
\* five conditions comes out as (0,0,0,255) and every other pixel comes out
\* with its four channels unchanged (an opaque black source pixel therefore
\* comes out as (0,0,0,255) without meeting them); the output pixel is a
\* function of the source pixel and the options alone
C21_KeyedOrUnchanged ==
  [][ChromaWrite =>
       \A i \in 1..FramePixels :
         LET px == videoFrame[i]
             o == chromaKeyConfigRef
             five == /\ Hue(px[1], px[2], px[3]) >= o.minHue
                     /\ Hue(px[1], px[2], px[3]) <= o.maxHue
                     /\ SaturationAbove(px[1], px[2], px[3], o)
                     /\ ValueAbove(px[1], px[2], px[3])
                     /\ 100 * px[2] > px[1] * o.threshold
                     /\ 100 * px[2] > px[3] * o.threshold
         IN  canvasData'[i] = IF five THEN <<0, 0, 0, 255>> ELSE px]_vars

\* a written frame with one pixel keyed and another, of a different colour or
\* alpha, passed through
C21_Witness ==
  /\ canvasData # <<>>
  /\ \E i, j \in 1..FramePixels :
       /\ canvasData[i] = <<0, 0, 0, 255>> /\ videoFrame[i] # <<0, 0, 0, 255>>
       /\ canvasData[j] = videoFrame[j] /\ canvasData[j] # <<0, 0, 0, 255>>

\* C22: a tick of the render loop while the video has no decodable frame
\* (readyState < 2) leaves the canvas as it was and leaves the loop scheduled
\* (an error thrown by the tick would end the loop, since render would not
\* reach requestAnimationFrame)
C22_UndecodableFrameSkipped ==
  [][(RenderTick /\ videoReadyState < 2) =>
       (canvasData' = canvasData /\ chromaLoop' = "scheduled")]_vars

\* the loop runs, the canvas holds an earlier frame, and the video has lost
\* its decodable frame: the next tick is such a tick
C22_Witness ==
  /\ chromaLoop = "scheduled"
  /\ videoReadyState < 2
  /\ canvasData # <<>>
  /\ ENABLED RenderTick

\* C30: with an inverted hue band (minHue > maxHue) every frame the compositor
\* writes equals the source frame: no pixel is classified as background
C30_InvertedBandKeysNothing ==
  [][(ChromaWrite /\ chromaKeyConfigRef.minHue > chromaKeyConfigRef.maxHue) =>
       canvasData' = videoFrame]_vars

\* under an inverted band a frame was written unchanged although one of its
\* pixels meets the other four conditions and has its hue in the band read as
\* wrapping through 0/360 degrees
C30_Witness ==
  /\ chromaKeyConfigRef.minHue > chromaKeyConfigRef.maxHue
  /\ chromaLoop = "scheduled"
  /\ canvasData = videoFrame
  /\ \E i \in 1..FramePixels :
       LET px == videoFrame[i]
       IN  /\ px # <<0, 0, 0, 255>>
           /\ HueInBand_Wrap(Hue(px[1], px[2], px[3]), chromaKeyConfigRef)
           /\ SaturationAbove(px[1], px[2], px[3], chromaKeyConfigRef)
           /\ ValueAbove(px[1], px[2], px[3])
           /\ 100 * px[2] > px[1] * chromaKeyConfigRef.threshold
           /\ 100 * px[2] > px[3] * chromaKeyConfigRef.threshold

\* C29: once the chat interface has sent a request and is loading, it leaves the
\* loading state again (as long as the avatar window stays open), whatever
\* becomes of the request
C29_LoadingEnds == isLoading ~> (~isLoading \/ ~mounted)

\* C23: every window's displayed history comes to equal, and stays equal to,
\* the stored history once the appends and clears have been made
C23_HistoryPropagates ==
  \A w \in Windows : <>[](chatHistory[w] = storedHistory)

====
